---- MODULE Spec2Model ----
(***************************************************************************)
(* Model of imghunt: the scraper pipeline of src/imghunt/scraper.py and    *)
(* the session views of src/imghunt/views.py.                              *)
(*                                                                         *)
(* A Python string is a sequence of atoms.  An atom is one of the          *)
(* separator characters "/", ":", " ", "," or a word: a maximal run of     *)
(* other characters ("https", a host label, a file name, a descriptor      *)
(* such as 2x).  Every string operation of the source (count, replace,     *)
(* startswith, split, indexing of the first two characters) looks only at  *)
(* the separator characters, so it acts on atoms as it acts on characters. *)
(***************************************************************************)
EXTENDS Integers, Sequences, FiniteSets, TLC

\* ------------------------------------------------------------ bounds
MaxBody == 6
MaxNested == 3
MaxLinks == 5
MaxClock == 2

\* ------------------------------------------------- program constants
MIN_LINKS == 5
max_checks == 3

\* ------------------------------------------------------------ strings
SL == "/"
CO == ":"
SP == " "
CM == ","
Word == {"https", "h"}

\* The literals the source writes.
DSL == <<SL, SL>>
SCHEME_SEP == <<CO, SL, SL>>
DCO == <<CO, CO>>
HTTPS_COLON == <<"https", CO>>
None == <<"None">>

\* str.startswith
StartsWith(s, p) == Len(s) >= Len(p) /\ SubSeq(s, 1, Len(p)) = p

\* `c in s` for a one-character c
Contains(s, c) == \E i \in 1..Len(s) : s[i] = c

\* str.count: the number of non-overlapping occurrences, left to right
RECURSIVE Count(_, _)
Count(s, pat) ==
    IF Len(s) < Len(pat) THEN 0
    ELSE IF StartsWith(s, pat)
         THEN 1 + Count(SubSeq(s, Len(pat) + 1, Len(s)), pat)
         ELSE Count(Tail(s), pat)

\* str.replace: every non-overlapping occurrence, left to right
RECURSIVE Replace(_, _, _)
Replace(s, old, new) ==
    IF Len(s) < Len(old) THEN s
    ELSE IF StartsWith(s, old)
         THEN new \o Replace(SubSeq(s, Len(old) + 1, Len(s)), old, new)
         ELSE <<Head(s)>> \o Replace(Tail(s), old, new)

\* str.split(sep) with an explicit separator: empty pieces are kept
RECURSIVE SplitAcc(_, _, _)
SplitAcc(s, sep, cur) ==
    IF s = <<>> THEN <<cur>>
    ELSE IF Head(s) = sep
         THEN <<cur>> \o SplitAcc(Tail(s), sep, <<>>)
         ELSE SplitAcc(Tail(s), sep, Append(cur, Head(s)))

Split(s, sep) == SplitAcc(s, sep, <<>>)

\* validators.url as valid_url uses it: scheme "://" host, then nothing or a
\* path that starts with "/" and holds no whitespace.  A host is a run of
\* words; a path may hold words, "/", ":" and ",".
RECURSIVE SkipWords(_)
SkipWords(s) == IF s # <<>> /\ Head(s) \in Word THEN SkipWords(Tail(s)) ELSE s

valid_url(url) ==
    /\ Len(url) >= 5
    /\ SubSeq(url, 1, 4) = <<"https">> \o SCHEME_SEP
    /\ url[5] \in Word
    /\ LET rest == SkipWords(SubSeq(url, 5, Len(url))) IN
       rest # <<>> => (Head(rest) = SL /\ ~Contains(rest, SP))

\* check_url: the query is rejected unless validators.url accepts it
check_url(q) == valid_url(q)

\* check_slashes
check_slashes(link) ==
    IF Count(link, DSL) > 1
    THEN Replace(Replace(Replace(link, SCHEME_SEP, DCO), DSL, <<SL>>), DCO, SCHEME_SEP)
    ELSE link

\* One link through the correction loop of check_link_validity, from pass i
\* on.  The result says how the loop ended: "valid" (appended to valid_links),
\* "error" (the for-else branch) or "IndexError" (link[1] of a one-character
\* link, which the function does not catch).
RECURSIVE CorrectLink(_, _, _, _)
CorrectLink(link, i, q, canonical) ==
    IF i >= max_checks
    THEN [kind |-> "error", link |-> link]
    ELSE LET l == check_slashes(link) IN
         IF valid_url(l) THEN [kind |-> "valid", link |-> l]
         ELSE IF i = 0
              THEN CorrectLink(IF StartsWith(l, DSL) THEN HTTPS_COLON \o l ELSE l,
                               i + 1, q, canonical)
         ELSE IF i = 1
              THEN IF Len(l) = 0 THEN [kind |-> "IndexError", link |-> l]
                   ELSE IF l[1] # SL THEN CorrectLink(l, i + 1, q, canonical)
                   ELSE IF Len(l) < 2 THEN [kind |-> "IndexError", link |-> l]
                   ELSE IF l[2] # SL
                        THEN CorrectLink((IF canonical = None THEN q ELSE canonical) \o l,
                                         i + 1, q, canonical)
                        ELSE CorrectLink(l, i + 1, q, canonical)
         ELSE CorrectLink(l, i + 1, q, canonical)

\* check_link_validity: the links in order, each into valid_links or
\* error_links; an uncaught IndexError ends the call.
RECURSIVE ValidityLoop(_, _, _, _, _)
ValidityLoop(links, q, canonical, valid, errors) ==
    IF links = <<>>
    THEN [valid |-> valid, errors |-> errors, raised |-> FALSE]
    ELSE LET r == CorrectLink(Head(links), 0, q, canonical) IN
         IF r.kind = "IndexError"
         THEN [valid |-> valid, errors |-> errors, raised |-> TRUE]
         ELSE IF r.kind = "valid"
         THEN ValidityLoop(Tail(links), q, canonical, Append(valid, r.link), errors)
         ELSE ValidityLoop(Tail(links), q, canonical, valid,
                           Append(errors, <<"First Pass - Invalid Link", r.link>>))

check_link_validity(raw, q, canonical) == ValidityLoop(raw, q, canonical, <<>>, <<>>)

\* check_nested_links: the enumerate loop pops from the list it iterates, so
\* the position advances past the value that slid into the popped slot.
RECURSIVE FilterValid(_)
FilterValid(items) ==
    IF items = <<>> THEN <<>>
    ELSE (IF valid_url(Head(items)) THEN <<Head(items)>> ELSE <<>>)
         \o FilterValid(Tail(items))

RemoveAt(s, i) == SubSeq(s, 1, i - 1) \o SubSeq(s, i + 1, Len(s))

RECURSIVE NestedLoop(_, _, _)
NestedLoop(links, idx, url_filter) ==
    IF idx > Len(links) THEN links \o url_filter
    ELSE IF Contains(links[idx], SP)
         THEN NestedLoop(RemoveAt(links, idx), idx + 1,
                         url_filter \o FilterValid(Split(Replace(links[idx], <<CM>>, <<>>), SP)))
         ELSE NestedLoop(links, idx + 1, url_filter)

check_nested_links(links) ==
    IF \E i \in 1..Len(links) : Contains(links[i], SP)
    THEN NestedLoop(links, 1, <<>>)
    ELSE links

\* get_raw_image_links on the attribute values image_nodes collected
get_raw_image_links(attrs) == check_nested_links(attrs)

\* download_images: link idx of valid_links is fetched and decoded; outcome[idx]
\* is the detected format, or "err" when the fetch or the decode raised.  The
\* results dict is kept as its items in insertion order; a repeated key
\* overwrites the earlier item.
FilenameWithoutOrdinal(idx, format) == <<"IMG", 0, format>>

Filename(idx, format) == <<"IMG", idx, format>>

DictSet(d, key, value) ==
    IF \E i \in 1..Len(d) : d[i].key = key
    THEN [i \in 1..Len(d) |-> IF d[i].key = key THEN [key |-> key, link |-> value] ELSE d[i]]
    ELSE Append(d, [key |-> key, link |-> value])

RECURSIVE DownloadLoop(_, _, _, _, _)
DownloadLoop(valid, outcome, idx, results, errors) ==
    IF idx > Len(valid) THEN [results |-> results, errors |-> errors]
    ELSE IF outcome[idx] = "err"
         THEN DownloadLoop(valid, outcome, idx + 1, results,
                           Append(errors, <<"download exception", valid[idx]>>))
         ELSE DownloadLoop(valid, outcome, idx + 1,
                           DictSet(results, Filename(idx, outcome[idx]), valid[idx]), errors)

download_images(valid, outcome) == DownloadLoop(valid, outcome, 1, <<>>, <<>>)

\* save_images: the items of the dict in order; item i fails to save when
\* i \in fails.
RECURSIVE SaveLoop(_, _, _, _, _)
SaveLoop(images, fails, i, count, errors) ==
    IF i > Len(images) THEN [success_count |-> count, errors |-> errors]
    ELSE IF i \in fails
         THEN SaveLoop(images, fails, i + 1, count,
                       Append(errors, <<"save exception", images[i].link>>))
         ELSE SaveLoop(images, fails, i + 1, count + 1, errors)

save_images(images, fails) == SaveLoop(images, fails, 1, 0, <<>>)

\* create_folder: the name is the time of the call, to the second
create_folder(now) == <<"IMGHUNT", now>>

\* Entries of the shared download folder TEMP_DL_FOLDER.
DirEntry(name) == [kind |-> "dir", name |-> name]
ZipEntry(name) == [kind |-> "zip", name |-> name]
DSStore == [kind |-> "DS_Store", name |-> <<>>]

\* ---------------------------------------------------------------- state
VARIABLES
    pc,                \* scraper: the position of the run
    query,             \* scraper: the argument
    canonical_url,     \* scraper: get_canonical_url's result
    raw_links,         \* scraper: the list handed to check_link_validity
    num_raw_links,     \* scraper: len(raw_links) after the first extraction
    playwright_calls,  \* how often the run called run_playwright
    valid_links,       \* check_link_validity's first result
    link_errors,       \* check_link_validity's second result
    extracted_images,  \* download_images' dict
    dl_errors,         \* download_images' errors
    success_count,     \* save_images' count
    final_errors,      \* save_images' errors
    result,            \* what scraper returned
    fs,                \* the entries of the download folder
    clock,             \* datetime.now(), in seconds
    session,           \* views: request.session of each client
    response,          \* views: the last response each client got
    n_link,            \* a link given to the normalizer alone
    n_canon,           \* the canonical URL of that call
    n_out,             \* check_link_validity's result for it
    s_out,             \* check_slashes' result for it
    nl_in,             \* a list given to check_nested_links alone
    nl_out             \* its result

pvars == <<pc, query, canonical_url, raw_links, num_raw_links, playwright_calls,
           valid_links, link_errors, extracted_images, dl_errors, success_count,
           final_errors, result>>
fvars == <<fs, clock>>
wvars == <<session, response>>
nvars == <<n_link, n_canon, n_out, s_out>>
lvars == <<nl_in, nl_out>>
vars == <<pvars, fvars, wvars, nvars, lvars>>

Pending == [kind |-> "pending"]

\* ------------------------------------------------------------- inputs
RECURSIVE SeqsUpTo(_, _)
SeqsUpTo(S, n) ==
    IF n = 0 THEN {<<>>}
    ELSE LET shorter == SeqsUpTo(S, n - 1) IN
         shorter \cup {Append(s, x) : s \in {t \in shorter : Len(t) = n - 1}, x \in S}

\* A page address and an image address.
PageUrl == <<"https", CO, SL, SL, "h">>
ImgUrl == <<"https", CO, SL, SL, "h", SL, "h">>

\* Attribute values a page's <img> nodes may hold: an absolute link, the
\* one-character link "/", a relative link no pass repairs, and a
\* root-relative link.
PageVals == {ImgUrl, <<SL>>, <<"h">>, <<SL, "h">>}
PageAttrs == SeqsUpTo(PageVals, MaxLinks)
Queries == {PageUrl, <<"h">>}
Canonicals == {None, PageUrl}
Formats == {"PNG", "err"}

Sessions == {"s1", "s2"}

IdlePipeline ==
    /\ pc = "idle" /\ query = <<>> /\ canonical_url = None /\ raw_links = <<>>
    /\ num_raw_links = 0 /\ playwright_calls = 0 /\ valid_links = <<>>
    /\ link_errors = <<>> /\ extracted_images = <<>> /\ dl_errors = <<>>
    /\ success_count = 0 /\ final_errors = <<>> /\ result = Pending
IdleFolder == fs = {} /\ clock = 0
\* request.session: the keys it holds and the values the views read back
EmptySession == [keys |-> {}, filename |-> None, destination_directory |-> None]
SessionKeys == {"query", "num_raw_links", "num_dl_images", "num_errors", "error_links",
                "filename", "source_directory", "destination_directory"}

IdleViews ==
    /\ session = [s \in Sessions |-> EmptySession]
    /\ response = [s \in Sessions |-> "none"]
IdleNorm == n_link = <<>> /\ n_canon = None /\ n_out = Pending /\ s_out = Pending
IdleNested == nl_in = <<>> /\ nl_out = Pending

\* ------------------------------------------------------ scraper, a run
Init ==
    /\ pc = "start" /\ query \in Queries /\ canonical_url = None /\ raw_links = <<>>
    /\ num_raw_links = 0 /\ playwright_calls = 0 /\ valid_links = <<>>
    /\ link_errors = <<>> /\ extracted_images = <<>> /\ dl_errors = <<>>
    /\ success_count = 0 /\ final_errors = <<>> /\ result = Pending
    /\ IdleFolder /\ IdleViews /\ IdleNorm /\ IdleNested

Failure(msg) == [shape |-> "list", msg |-> msg]

\* scraper, lines 236-238: the input check
CheckUrl ==
    /\ pc = "start"
    /\ IF check_url(query)
       THEN pc' = "checked" /\ UNCHANGED result
       ELSE pc' = "failed" /\ result' = Failure(<<"Invalid URL. Try again!">>)
    /\ UNCHANGED <<query, canonical_url, raw_links, num_raw_links, playwright_calls,
                   valid_links, link_errors, extracted_images, dl_errors,
                   success_count, final_errors>>
    /\ UNCHANGED <<fvars, wvars, nvars, lvars>>

\* scraper, lines 241-243: get_request returned the error list
GetRequestError ==
    /\ pc = "checked"
    /\ pc' = "failed"
    /\ result' = Failure(<<"Error accessing URL">>)
    /\ UNCHANGED <<query, canonical_url, raw_links, num_raw_links, playwright_calls,
                   valid_links, link_errors, extracted_images, dl_errors,
                   success_count, final_errors>>
    /\ UNCHANGED <<fvars, wvars, nvars, lvars>>

\* scraper, lines 241-253: the page came back; its canonical URL and the raw
\* links of its <img> nodes are read and the links counted
GetRawImageLinks ==
    /\ pc = "checked"
    /\ \E attrs \in PageAttrs, c \in Canonicals :
         /\ canonical_url' = c
         /\ raw_links' = get_raw_image_links(attrs)
         /\ num_raw_links' = Len(get_raw_image_links(attrs))
    /\ pc' = "counted"
    /\ UNCHANGED <<query, playwright_calls, valid_links, link_errors, extracted_images,
                   dl_errors, success_count, final_errors, result>>
    /\ UNCHANGED <<fvars, wvars, nvars, lvars>>

\* scraper, lines 254-255
NoImages ==
    /\ pc = "counted"
    /\ num_raw_links = 0
    /\ pc' = "failed"
    /\ result' = Failure(<<"Unable to access images at">> \o query)
    /\ UNCHANGED <<query, canonical_url, raw_links, num_raw_links, playwright_calls,
                   valid_links, link_errors, extracted_images, dl_errors,
                   success_count, final_errors>>
    /\ UNCHANGED <<fvars, wvars, nvars, lvars>>

\* scraper, lines 256-257: run_playwright's links replace raw_links;
\* num_raw_links keeps the first count
RunPlaywright ==
    /\ pc = "counted"
    /\ num_raw_links # 0
    /\ num_raw_links < MIN_LINKS
    /\ \E rendered \in PageAttrs : raw_links' = get_raw_image_links(rendered)
    /\ playwright_calls' = playwright_calls + 1
    /\ pc' = "extracted"
    /\ UNCHANGED <<query, canonical_url, num_raw_links, valid_links, link_errors,
                   extracted_images, dl_errors, success_count, final_errors, result>>
    /\ UNCHANGED <<fvars, wvars, nvars, lvars>>

\* scraper, lines 254-257: neither branch is taken
EnoughLinks ==
    /\ pc = "counted"
    /\ num_raw_links # 0
    /\ ~(num_raw_links < MIN_LINKS)
    /\ pc' = "extracted"
    /\ UNCHANGED <<query, canonical_url, raw_links, num_raw_links, playwright_calls,
                   valid_links, link_errors, extracted_images, dl_errors,
                   success_count, final_errors, result>>
    /\ UNCHANGED <<fvars, wvars, nvars, lvars>>

\* scraper, line 260
CheckLinkValidity ==
    /\ pc = "extracted"
    /\ LET r == check_link_validity(raw_links, query, canonical_url) IN
         IF r.raised
         THEN /\ pc' = "raised"
              /\ result' = [shape |-> "exception", msg |-> <<"IndexError">>]
              /\ UNCHANGED <<valid_links, link_errors>>
         ELSE /\ pc' = "validated"
              /\ valid_links' = r.valid
              /\ link_errors' = r.errors
              /\ UNCHANGED result
    /\ UNCHANGED <<query, canonical_url, raw_links, num_raw_links, playwright_calls,
                   extracted_images, dl_errors, success_count, final_errors>>
    /\ UNCHANGED <<fvars, wvars, nvars, lvars>>

\* scraper, lines 263-264
DownloadImages ==
    /\ pc = "validated"
    /\ \E outcome \in [1..Len(valid_links) -> Formats] :
         LET r == download_images(valid_links, outcome) IN
         /\ extracted_images' = r.results
         /\ dl_errors' = r.errors
    /\ pc' = "downloaded"
    /\ UNCHANGED <<query, canonical_url, raw_links, num_raw_links, playwright_calls,
                   valid_links, link_errors, success_count, final_errors, result>>
    /\ UNCHANGED <<fvars, wvars, nvars, lvars>>

\* scraper, lines 267-277: the working directory is made and the images saved
SaveImages ==
    /\ pc = "downloaded"
    /\ fs' = fs \cup {DirEntry(create_folder(clock))}
    /\ \E fails \in SUBSET (1..Len(extracted_images)) :
         LET r == save_images(extracted_images, fails) IN
         /\ success_count' = r.success_count
         /\ final_errors' = r.errors
    /\ pc' = "saved"
    /\ UNCHANGED <<query, canonical_url, raw_links, num_raw_links, playwright_calls,
                   valid_links, link_errors, extracted_images, dl_errors, result>>
    /\ UNCHANGED <<clock, wvars, nvars, lvars>>

\* The error list scraper returns: lines 260, 264 and 277
ErrorLinks(le, de, fe) == (le \o de) \o fe

\* scraper, lines 280-294: the archive is made and the result returned
MakeArchive ==
    /\ pc = "saved"
    /\ fs' = fs \cup {ZipEntry(create_folder(clock))}
    /\ result' = [shape |-> "dict",
                  num_raw_links |-> num_raw_links,
                  num_dl_images |-> success_count,
                  num_errors |-> Len(ErrorLinks(link_errors, dl_errors, final_errors)),
                  error_links |-> ErrorLinks(link_errors, dl_errors, final_errors),
                  filename |-> create_folder(clock)]
    /\ pc' = "done"
    /\ UNCHANGED <<query, canonical_url, raw_links, num_raw_links, playwright_calls,
                   valid_links, link_errors, extracted_images, dl_errors,
                   success_count, final_errors>>
    /\ UNCHANGED <<clock, wvars, nvars, lvars>>

Next ==
    \/ CheckUrl
    \/ GetRequestError
    \/ GetRawImageLinks
    \/ NoImages
    \/ RunPlaywright
    \/ EnoughLinks
    \/ CheckLinkValidity
    \/ DownloadImages
    \/ SaveImages
    \/ MakeArchive

Spec == Init /\ [][Next]_vars

\* ------------------------------------------- the normalizer on one link
LinkPrefixes == {<<>>, HTTPS_COLON, PageUrl}
LinkBodies == SeqsUpTo({SL, CO, "h"}, MaxBody)
LinkInputs == {p \o b : p \in LinkPrefixes, b \in LinkBodies}

InitNorm ==
    /\ n_link \in LinkInputs /\ n_canon \in Canonicals
    /\ n_out = Pending /\ s_out = Pending
    /\ IdlePipeline /\ IdleFolder /\ IdleViews /\ IdleNested

\* check_slashes(link)
CheckSlashes ==
    /\ s_out = Pending
    /\ s_out' = [kind |-> "done", link |-> check_slashes(n_link)]
    /\ UNCHANGED <<n_link, n_canon, n_out, pvars, fvars, wvars, lvars>>

\* check_link_validity([link], query, canonical_url)
NormalizeLink ==
    /\ n_out = Pending
    /\ n_out' = check_link_validity(<<n_link>>, PageUrl, n_canon)
    /\ UNCHANGED <<n_link, n_canon, s_out, pvars, fvars, wvars, lvars>>

NextNorm == CheckSlashes \/ NormalizeLink

SpecNorm == InitNorm /\ [][NextNorm]_vars

\* ------------------------------------------ check_nested_links on a list
Srcset1 == ImgUrl \o <<SP, "h">>
Srcset2 == ImgUrl \o <<SP, "h", CM, SP>> \o ImgUrl \o <<SP, "h">>
NestedVals == {ImgUrl, <<"h">>, Srcset1, Srcset2, <<"h", SP, "h">>}

InitNested ==
    /\ nl_in \in SeqsUpTo(NestedVals, MaxNested) /\ nl_out = Pending
    /\ IdlePipeline /\ IdleFolder /\ IdleViews /\ IdleNorm

CheckNestedLinks ==
    /\ nl_out = Pending
    /\ nl_out' = [kind |-> "done", links |-> check_nested_links(nl_in)]
    /\ UNCHANGED <<nl_in, pvars, fvars, wvars, nvars>>

NextNested == CheckNestedLinks

SpecNested == InitNested /\ [][NextNested]_vars

\* ------------------------------------------------------------ the views
\* folder_cleanup: every entry of the folder but .DS_Store is removed
folder_cleanup(entries) == {e \in entries : e.kind = "DS_Store"}

\* index, lines 27-28: the folder as the request leaves it before the scrape
AfterCleanup(s) ==
    IF "source_directory" \in session[s].keys THEN folder_cleanup(fs) ELSE fs

InitViews ==
    /\ fs \in {{}, {DSStore}} /\ clock = 0
    /\ IdleViews /\ IdlePipeline /\ IdleNorm /\ IdleNested

\* index, lines 27-34: no query
IndexNoQuery(s) ==
    /\ fs' = AfterCleanup(s)
    /\ session' = [session EXCEPT ![s] = EmptySession]
    /\ response' = [response EXCEPT ![s] = "index.html"]
    /\ UNCHANGED <<clock, pvars, nvars, lvars>>

\* index, lines 27-41: scraper returned a failure list, before any mkdir
IndexFailure(s) ==
    /\ fs' = AfterCleanup(s)
    /\ session' = [session EXCEPT ![s] = EmptySession]
    /\ response' = [response EXCEPT ![s] = "redirect index"]
    /\ UNCHANGED <<clock, pvars, nvars, lvars>>

\* index, lines 27-37: scraper raised (the IndexError of check_link_validity,
\* or os.mkdir's FileExistsError for a directory of the same second)
IndexRaised(s) ==
    /\ fs' = AfterCleanup(s)
    /\ session' = [session EXCEPT ![s] = EmptySession]
    /\ response' = [response EXCEPT ![s] = "500"]
    /\ UNCHANGED <<clock, pvars, nvars, lvars>>

\* index, lines 27-51: scraper made the directory and the archive and
\* returned the dict, which the session keeps
IndexSuccess(s) ==
    /\ DirEntry(create_folder(clock)) \notin AfterCleanup(s)
    /\ fs' = AfterCleanup(s) \cup {DirEntry(create_folder(clock)), ZipEntry(create_folder(clock))}
    /\ session' = [session EXCEPT ![s] = [keys |-> SessionKeys,
                                          filename |-> create_folder(clock),
                                          destination_directory |-> create_folder(clock)]]
    /\ response' = [response EXCEPT ![s] = "redirect success"]
    /\ UNCHANGED <<clock, pvars, nvars, lvars>>

\* success
Success(s) ==
    /\ response' = [response EXCEPT ![s] =
                      IF "query" \in session[s].keys THEN "success.html" ELSE "redirect index"]
    /\ UNCHANGED <<session, fvars, pvars, nvars, lvars>>

\* download_zip: open(f"{fp}.zip") raises when the archive is not there
download_zip(s) ==
    /\ response' = [response EXCEPT ![s] =
                      IF ZipEntry(session[s].destination_directory) \in fs
                      THEN "zip" ELSE "500"]
    /\ UNCHANGED <<session, fvars, pvars, nvars, lvars>>

\* a second passes
Tick ==
    /\ clock < MaxClock
    /\ clock' = clock + 1
    /\ UNCHANGED <<fs, wvars, pvars, nvars, lvars>>

NextViews ==
    \/ \E s \in Sessions : IndexNoQuery(s)
    \/ \E s \in Sessions : IndexFailure(s)
    \/ \E s \in Sessions : IndexRaised(s)
    \/ \E s \in Sessions : IndexSuccess(s)
    \/ \E s \in Sessions : Success(s)
    \/ \E s \in Sessions : download_zip(s)
    \/ Tick

SpecViews == InitViews /\ [][NextViews]_vars

\* ================================================================ claims

\* The run got as far as counting the first extraction's links.
ReachedExtraction ==
    \/ pc \in {"extracted", "raised", "validated", "downloaded", "saved", "done"}
    \/ pc = "failed" /\ result.msg[1] = "Unable to access images at"

\* C1: a run that returns the success dict reports a num_raw_links equal to
\* the number of valid links plus the number of link-correction error
\* records of that run, also when the rendering fallback replaced the list.
C1_RawLinksPartitioned ==
    pc = "done" => result.num_raw_links = Len(valid_links) + Len(link_errors)

\* C2: once the first extraction is counted, run_playwright has been called
\* exactly once if it found fewer than MIN_LINKS links and not at all if it
\* found MIN_LINKS or more; never more than once.
C2_FallbackExactlyOnceBelowThreshold ==
    /\ playwright_calls <= 1
    /\ (ReachedExtraction /\ pc # "counted") =>
         IF num_raw_links < MIN_LINKS THEN playwright_calls = 1 ELSE playwright_calls = 0

\* C3: a run whose list for the normalizer is empty ends in the failure list
\* and makes no directory or archive: no success dict is returned for an
\* empty raw_links, and a failed run leaves the folder empty.
C3_EmptyExtractionIsTerminal ==
    /\ pc = "done" => raw_links # <<>>
    /\ pc = "failed" => fs = {}

\* C4: after the page is fetched and a raw link extracted, no exception ends
\* the run: it never stops in check_link_validity, and what it returns is the
\* success dict.
C4_PerItemFailuresNeverAbort ==
    /\ pc # "raised"
    /\ (pc = "done" => result.shape = "dict")

\* C5: in a run that returns the success dict every valid link is counted
\* once across download and save (num_dl_images + download errors + save
\* errors = valid links), num_errors is the length of error_links, and
\* error_links is the link-correction errors, then the download errors, then
\* the save errors; so 3 valid links with one failing fetch and nothing else
\* failing give num_dl_images = 2 and num_errors = 1.
C5_ValidLinksAccounted ==
    pc = "done" =>
      /\ result.num_dl_images + Len(dl_errors) + Len(final_errors) = Len(valid_links)
      /\ result.num_errors = Len(result.error_links)
      /\ result.error_links = link_errors \o dl_errors \o final_errors
      /\ (Len(valid_links) = 3 /\ Len(dl_errors) = 1 /\ link_errors = <<>> /\ final_errors = <<>>)
           => (result.num_dl_images = 2 /\ result.num_errors = 1)

\* C5, its case: a finished run with 3 valid links, one failed fetch, a
\* failed save and a link-correction error.
C5_Witness ==
    /\ pc = "done"
    /\ Len(valid_links) = 3 /\ Len(dl_errors) = 1 /\ Len(final_errors) = 1
    /\ Len(link_errors) = 1 /\ result.num_dl_images = 1 /\ result.num_errors = 3

\* C6: a link that already passes URL validation comes out of
\* check_link_validity as the one valid link, the same string.
C6_ValidLinkUnchanged ==
    (n_out # Pending /\ valid_url(n_link)) =>
      (~n_out.raised /\ n_out.valid = <<n_link>> /\ n_out.errors = <<>>)

\* C7: a link that begins with "//" and is a URL once "https:" is put in
\* front comes out of check_link_validity as "https:" followed by the link,
\* never with the page's or the canonical URL in front.
C7_ProtocolRelativeGetsHttps ==
    (n_out # Pending /\ StartsWith(n_link, DSL) /\ valid_url(HTTPS_COLON \o n_link)) =>
      (~n_out.raised /\ n_out.valid = <<HTTPS_COLON \o n_link>>)

\* Two slashes in a row stand right after a colon and no third follows.
OnlySchemeSlashPair(s) ==
    \A i \in 1..(Len(s) - 1) :
      (s[i] = SL /\ s[i + 1] = SL) =>
        /\ i > 1 /\ s[i - 1] = CO
        /\ (i + 2 <= Len(s) => s[i + 2] # SL)

NotSlash(c) == c # SL
WithoutSlashes(s) == SelectSeq(s, NotSlash)

\* C8: check_slashes on a link with more than one "//" leaves no run of two
\* or more slashes but one pair right after a colon, and changes nothing
\* but slashes.
C8_SlashesCollapsed ==
    (s_out # Pending /\ Count(n_link, DSL) > 1) =>
      /\ OnlySchemeSlashPair(s_out.link)
      /\ WithoutSlashes(s_out.link) = WithoutSlashes(n_link)

\* The values without a space, and the valid tokens of those with one.
RECURSIVE WithoutSpaced(_)
WithoutSpaced(links) ==
    IF links = <<>> THEN <<>>
    ELSE (IF Contains(Head(links), SP) THEN <<>> ELSE <<Head(links)>>)
         \o WithoutSpaced(Tail(links))

RECURSIVE TokensOfSpaced(_)
TokensOfSpaced(links) ==
    IF links = <<>> THEN <<>>
    ELSE (IF Contains(Head(links), SP)
          THEN FilterValid(Split(Replace(Head(links), <<CM>>, <<>>), SP))
          ELSE <<>>)
         \o TokensOfSpaced(Tail(links))

\* C9: check_nested_links returns the values without a space, in order,
\* followed by the valid tokens of the values with a space; so no string it
\* returns holds a space.
C9_NestedLinksSplit ==
    nl_out # Pending =>
      /\ nl_out.links = WithoutSpaced(nl_in) \o TokensOfSpaced(nl_in)
      /\ \A i \in 1..Len(nl_out.links) : ~Contains(nl_out.links[i], SP)

\* C10: the archive a session recorded stays in the folder until that
\* session's next index request, whatever the other sessions request.
C10_ArchiveKeptForSession ==
    \A s \in Sessions :
      "destination_directory" \in session[s].keys =>
        ZipEntry(session[s].destination_directory) \in fs

====
